---- MODULE Spec2Model ----
(***************************************************************************)
(* Cage (Wayland kiosk): the compositor's main() lifecycle with its child  *)
(* supervisor, the pointer routing of the seat, and the layer-shell         *)
(* surfaces with their output binding.                                      *)
(*                                                                          *)
(* Three groups of state share one module:                                  *)
(*   - main():  startup steps, the event loop, the `end:` teardown;         *)
(*   - desktop: outputs, views, cursor and pointer focus;                   *)
(*   - layer shell: layer surfaces, the outputs' four layer lists, the      *)
(*     listeners on wlr_output.events.destroy.                              *)
(* SpecMain runs main() alone; SpecPointer, SpecLayer, SpecInput and        *)
(* SpecAlloc run the handlers the event loop dispatches while main() sits   *)
(* in wl_display_run(): pointer and views, layer surfaces, input devices,   *)
(* and the three handlers that allocate an object for an incoming event.    *)
(***************************************************************************)
EXTENDS Integers, FiniteSets, Sequences, TLC

\* The C null pointer; object identities are positive integers.
NULL == 0

\* ------------------------------------------------------------------ bounds
\* SIGINT / SIGTERM deliveries dispatched over one run.
MaxSignals == 2
\* Events of other handlers dispatched over one run of SpecMain.
MaxOtherEvents == 1
\* Outputs the backend announces over one run.
MaxOutputs == 2
\* Toplevel surfaces created over one run.
MaxViews == 2
\* Layer surfaces created over one run.
MaxLayerSurfaces == 1
\* Width of every output, in layout units.
OutputWidth == 2
\* Input devices the backend announces over one run.
MaxInputDevices == 3

VARIABLES
    \* ---- main() --------------------------------------------------------
    pc,             \* position of main()
    ret,            \* main's local `ret`
    pid,            \* main's local `pid` (0 until spawn sets it)
    childState,     \* "none" | "running" | "zombie" | "reaped"
    childStatus,    \* the child's wait status, NoStatus until it terminates
    display,        \* server.wl_display: "null" | "alive" | "destroyed"
    displayRun,     \* wl_display.run, the flag wl_display_run() loops on
    sources,        \* event sources registered with the event loop
    fdRead,         \* parent's fd[0]: "none" | "open" | "closed"
    fdWrite,        \* parent's fd[1]: "none" | "open" | "closed"
    seat,           \* server.seat: "null" | "created" | "finished"
    outputLayout,   \* server.output_layout: "null" | "created" | "destroyed"
    teardown,       \* history: the teardown steps executed, in order
    waitCalls,      \* history: number of waitpid() calls made
    loopEntered,    \* history: wl_display_run() was called
    failed,         \* history: the startup step that failed, "none" otherwise
    termRequested,  \* history: a terminal trigger has fired
    exitStatus,     \* <<status>> once main() returned, NoExit before
    signalsSent,    \* SIGINT/SIGTERM dispatched so far
    otherEvents,    \* other events dispatched so far
    failActs,       \* history: locals setup_seat's `fail:` freed as garbage
    \* ---- desktop: outputs, views, pointer --------------------------------
    wlrOutputs,     \* backend wlr_output objects: "absent" | "alive" | "destroyed"
    outputs,        \* server->outputs: the cg_output list, head first
    layout,         \* server->output_layout: outputs in the order they were added
    views,          \* the xdg-shell views
    cursorX,        \* wlr_cursor->x, in layout coordinates
    focused,        \* wlr_seat->pointer_state.focused_surface
    sent,           \* history: pointer notifications sent by the last event
    prevFocus,      \* history: the focus before the last pointer event
    hit,            \* history: the surface desktop_surface_at found for it
    lastTime,       \* history: the `time` of the last pointer event
    evRole,         \* history: the role of the last new xdg surface, else "none"
    \* ---- layer shell --------------------------------------------------
    lsurf,          \* the layer surfaces (wlr_layer_surface_v1 + cg_layer_surface)
    layers,         \* output->layers[4]: per output and layer, head first
    outDestroy,     \* listeners on wlr_output->events.destroy, in signal order
    emitting,       \* the output whose destroy signal is being emitted, or NULL
    emitQueue,      \* the listeners that signal has still to call
    damage,         \* history: output_damage_surface calls of the last event
    evSurface,      \* history: the layer surface the last event was for, or NULL
    evLayer,        \* history: current.layer at the last surface commit
    evPrev,         \* history: the recorded layer that commit started from
    evResized,      \* history: that commit changed current.desired_width/height
    evNamed,        \* history: the output the last new layer surface came with
    \* ---- seat: input devices -------------------------------------------
    announced,      \* device types the backend announced, in order
    seatDevices,    \* the devices attached to the seat, by type, in order
    capabilities,   \* the seat's capability flags
    capsUpdated,    \* history: the last new-input event recomputed the flags
    \* ---- shared --------------------------------------------------------
    allocFailed,    \* history: a calloc() of the last event returned NULL
    handled,        \* history: the handler (or step) run by the last step
    crashed         \* the process died on a fault (segfault, abort)

mainVars == <<pc, ret, pid, childState, childStatus, display, displayRun, sources,
              fdRead, fdWrite, seat, outputLayout, teardown, waitCalls, loopEntered,
              failed, termRequested, exitStatus, signalsSent, otherEvents, failActs>>

pointerVars == <<views, cursorX, focused, sent, prevFocus, hit, lastTime, evRole>>

outputVars == <<wlrOutputs, outputs, layout, emitting, emitQueue>>

layerVars == <<lsurf, layers, outDestroy, damage, evSurface, evLayer, evPrev,
               evResized, evNamed>>

inputVars == <<announced, seatDevices, capabilities, capsUpdated>>

deskVars == <<outputVars, pointerVars, layerVars, inputVars, allocFailed>>

vars == <<mainVars, deskVars, handled, crashed>>

\* ------------------------------------------------------------------ main()

NoStatus == [kind |-> "none", code |-> 0]
\* main() has not returned: no exit status yet.
NoExit == <<>>

\* What waitpid() can report: WIFEXITED with an exit status, WIFSIGNALED with a signal.
ChildStatuses ==
    {[kind |-> "exited", code |-> c] : c \in {0, 1}}
        \cup {[kind |-> "signaled", code |-> s] : s \in {9, 15}}

\* The two signals main() registers a source for.
Signals == {"SIGINT", "SIGTERM"}

\* The masks sigchld_handler is registered for.
FdMasks == {"WL_EVENT_HANGUP", "WL_EVENT_ERROR"}

\* The handlers main() wires to backend / protocol / cursor signals.
OtherHandlers == {"handle_new_output", "handle_xdg_shell_surface_new",
                  "handle_new_input", "handle_cursor_motion"}

\* user_data main() hands to wl_event_loop_add_signal: the ADDRESS of the
\* server's wl_display field, a struct wl_display **.
SignalUserData == "&server.wl_display"

\* user_data spawn_primary_client hands to wl_event_loop_add_fd: the display.
SigchldUserData == "server.wl_display"

\* ------------------------------------------------------- desktop objects

OutputIds == 1..MaxOutputs
ViewIds == 1..MaxViews
LayerIds == 1..MaxLayerSurfaces

\* zwlr_layer_shell_v1 layers: background, bottom, top, overlay; they index
\* output->layers[].
Layers == 0..3

\* What wl_container_of(server->outputs.next, output, link) yields on an empty
\* list: a pointer into the server itself, no cg_output.
BogusOutput == -1

\* calloc()'ed struct wlr_box geometry: x, y, width, height.
ZeroBox == [x |-> 0, y |-> 0, width |-> 0, height |-> 0]

\* listeners: the listeners of the server linked into the view's map and
\* unmap signals.
NoView == [state |-> "absent", output |-> NULL, width |-> 0, listeners |-> {}]

\* link: "list" in a layer list, "self" after wl_list_init, "removed" after
\* wl_list_remove.  misuse: wl_list_remove was applied to a link or listener
\* that was in no list.
NoLayerSurface ==
    [wlr |-> "absent", cg |-> "none", output |-> NULL, bound0 |-> NULL,
     mapped |-> FALSE, closed |-> FALSE, layer |-> 0, link |-> "none",
     listeners |-> {}, geometry |-> ZeroBox, misuse |-> FALSE]

\* No output, view or layer surface exists yet; the pointer is at the origin.
DeskEmpty ==
    /\ wlrOutputs = [o \in OutputIds |-> "absent"]
    /\ outputs = <<>>
    /\ layout = <<>>
    /\ views = [v \in ViewIds |-> NoView]
    /\ cursorX = 0
    /\ focused = NULL
    /\ sent = <<>>
    /\ prevFocus = NULL
    /\ hit = NULL
    /\ lastTime = 0
    /\ evRole = "none"
    /\ lsurf = [l \in LayerIds |-> NoLayerSurface]
    /\ layers = [o \in OutputIds |-> [k \in Layers |-> <<>>]]
    /\ outDestroy = [o \in OutputIds |-> <<>>]
    /\ emitting = NULL
    /\ emitQueue = <<>>
    /\ damage = <<>>
    /\ evSurface = NULL
    /\ evLayer = 0
    /\ evPrev = 0
    /\ evResized = FALSE
    /\ evNamed = NULL
    /\ announced = <<>>
    /\ seatDevices = <<>>
    /\ capabilities = {}
    /\ capsUpdated = FALSE
    /\ allocFailed = FALSE

InitMain ==
    /\ DeskEmpty
    /\ pc = "parse_args"
    /\ ret = 0
    /\ pid = 0
    /\ childState = "none"
    /\ childStatus = NoStatus
    /\ display = "null"
    /\ displayRun = FALSE
    /\ sources = {}
    /\ fdRead = "none"
    /\ fdWrite = "none"
    /\ seat = "null"
    /\ outputLayout = "null"
    /\ teardown = <<>>
    /\ waitCalls = 0
    /\ loopEntered = FALSE
    /\ failed = "none"
    /\ termRequested = FALSE
    /\ exitStatus = NoExit
    /\ signalsSent = 0
    /\ otherEvents = 0
    /\ failActs = {}
    /\ handled = "none"
    /\ crashed = FALSE

\* `return 1;` before the display exists: nothing to tear down.
ReturnEarly(step, status) ==
    /\ pc' = "done"
    /\ exitStatus' = <<status>>
    /\ failed' = (IF status = 0 THEN failed ELSE step)
    /\ handled' = step
    /\ UNCHANGED <<ret, pid, childState, childStatus, display, displayRun, sources,
                   fdRead, fdWrite, seat, outputLayout, teardown, waitCalls,
                   loopEntered, termRequested, signalsSent, otherEvents, failActs, crashed>>

\* `ret = 1; goto end;`
GotoEnd(step) ==
    /\ ret' = 1
    /\ pc' = "end_reap"
    /\ failed' = step
    /\ termRequested' = TRUE
    /\ handled' = step

\* A fault: the process is gone, no statement after the faulting one runs.
Crash(step) ==
    /\ crashed' = TRUE
    /\ failed' = step
    /\ handled' = step

\* parse_args(): -h and a missing APPLICATION return false, -v exits 0.
MainParseArgs ==
    /\ ~crashed /\ pc = "parse_args"
    /\ UNCHANGED deskVars
    /\ \/ /\ pc' = "getenv"
          /\ handled' = "parse_args"
          /\ UNCHANGED <<ret, pid, childState, childStatus, display, displayRun,
                         sources, fdRead, fdWrite, seat, outputLayout, teardown,
                         waitCalls, loopEntered, failed, termRequested, exitStatus,
                         signalsSent, otherEvents, failActs, crashed>>
       \/ ReturnEarly("parse_args", 1)
       \/ ReturnEarly("parse_args", 0)

\* getenv("XDG_RUNTIME_DIR")
MainGetenv ==
    /\ ~crashed /\ pc = "getenv"
    /\ UNCHANGED deskVars
    /\ \/ /\ pc' = "display"
          /\ handled' = "getenv"
          /\ UNCHANGED <<ret, pid, childState, childStatus, display, displayRun,
                         sources, fdRead, fdWrite, seat, outputLayout, teardown,
                         waitCalls, loopEntered, failed, termRequested, exitStatus,
                         signalsSent, otherEvents, failActs, crashed>>
       \/ ReturnEarly("getenv", 1)

\* wl_display_create(), then the two signal sources are added to its loop.
MainDisplayCreate ==
    /\ ~crashed /\ pc = "display"
    /\ UNCHANGED deskVars
    /\ \/ /\ pc' = "backend"
          /\ display' = "alive"
          /\ sources' = {"sigint", "sigterm"}
          /\ handled' = "display"
          /\ UNCHANGED <<ret, pid, childState, childStatus, displayRun, fdRead,
                         fdWrite, seat, outputLayout, teardown, waitCalls,
                         loopEntered, failed, termRequested, exitStatus,
                         signalsSent, otherEvents, failActs, crashed>>
       \/ ReturnEarly("display", 1)

\* The startup steps between the display and the seat whose result main() checks,
\* each with the step that follows it.
CheckedSteps ==
    [backend |-> "drop_permissions",
     drop_permissions |-> "renderer",
     compositor |-> "output_layout",
     data_device_manager |-> "xdg_shell",
     xdg_shell |-> "seat",
     socket |-> "backend_start",
     backend_start |-> "spawn"]

\* wlr_backend_autocreate, drop_permissions, wlr_compositor_create,
\* wlr_data_device_manager_create, wlr_xdg_shell_create, wl_display_add_socket_auto,
\* wlr_backend_start: `if (!x) { ret = 1; goto end; }`
MainCheckedStep ==
    /\ ~crashed /\ pc \in DOMAIN CheckedSteps
    /\ UNCHANGED deskVars
    /\ \/ /\ pc' = CheckedSteps[pc]
          /\ handled' = pc
          /\ UNCHANGED <<ret, failed, termRequested>>
       \/ GotoEnd(pc)
    /\ UNCHANGED <<pid, childState, childStatus, display, displayRun, sources, fdRead,
                   fdWrite, seat, outputLayout, teardown, waitCalls, loopEntered,
                   exitStatus, signalsSent, otherEvents, failActs, crashed>>

\* renderer = wlr_backend_get_renderer(backend);
\* wlr_renderer_init_wl_display(renderer, ...): the result is used unchecked, a
\* NULL renderer is dereferenced.
MainRenderer ==
    /\ ~crashed /\ pc = "renderer"
    /\ UNCHANGED deskVars
    /\ \/ /\ pc' = "compositor"
          /\ handled' = "renderer"
          /\ UNCHANGED <<failed, crashed>>
       \/ /\ Crash("renderer")
          /\ UNCHANGED pc
    /\ UNCHANGED <<ret, pid, childState, childStatus, display, displayRun, sources,
                   fdRead, fdWrite, seat, outputLayout, teardown, waitCalls,
                   loopEntered, termRequested, exitStatus, signalsSent, otherEvents, failActs>>

\* server.output_layout = wlr_output_layout_create();
MainOutputLayout ==
    /\ ~crashed /\ pc = "output_layout"
    /\ UNCHANGED deskVars
    /\ \/ /\ pc' = "data_device_manager"
          /\ outputLayout' = "created"
          /\ handled' = "output_layout"
          /\ UNCHANGED <<ret, failed, termRequested>>
       \/ /\ GotoEnd("output_layout")
          /\ UNCHANGED outputLayout
    /\ UNCHANGED <<pid, childState, childStatus, display, displayRun, sources, fdRead,
                   fdWrite, seat, teardown, waitCalls, loopEntered, exitStatus,
                   signalsSent, otherEvents, failActs, crashed>>

\* The creation steps of setup_seat(), in order; each declares the local that the
\* `fail:` label later reads.
SeatSteps == <<"seat", "wlr_seat", "xcursor_manager", "wlr_cursor", "cursor">>

\* The locals `fail:` reads (free(cursor), wlr_cursor != NULL, ..._destroy(x))
\* whose declaration the `goto fail` of step k jumps over: their value is
\* indeterminate there.
UninitAtFail(k) == {SeatSteps[j] : j \in (k + 1)..Len(SeatSteps)}

\* setup_seat(): the outcomes when step k fails (k = 0: no step fails).
\* `fail:` passes all five locals to free() or their destroy function.  An
\* indeterminate pointer either happens to be NULL (the call is a no-op) or is
\* garbage; acts is the set of locals freed or destroyed as garbage, and such
\* a call faults or goes unnoticed.
SetupSeatOutcomes(k) ==
    IF k = 0 THEN {[result |-> "seat", acts |-> {}]}
    ELSE {[result |-> "null", acts |-> {}]}
         \cup {[result |-> r, acts |-> g] :
                  r \in {"null", "crash"}, g \in (SUBSET UninitAtFail(k)) \ {{}}}

\* struct cg_seat *seat = setup_seat(...); if (!seat) { ret = 1; goto end; }
MainSetupSeat ==
    /\ ~crashed /\ pc = "seat"
    /\ UNCHANGED deskVars
    /\ \E k \in 0..Len(SeatSteps) : \E out \in SetupSeatOutcomes(k) :
        /\ failActs' = out.acts
        /\ \/ /\ out.result = "seat"
              /\ seat' = "created"
              /\ pc' = "socket"
              /\ handled' = "seat"
              /\ UNCHANGED <<ret, failed, termRequested, crashed>>
           \/ /\ out.result = "null"
              /\ GotoEnd("seat")
              /\ UNCHANGED <<seat, crashed>>
           \/ /\ out.result = "crash"
              /\ Crash("seat")
              /\ UNCHANGED <<seat, pc, ret, termRequested>>
    /\ UNCHANGED <<pid, childState, childStatus, display, displayRun, sources, fdRead,
                   fdWrite, outputLayout, teardown, waitCalls, loopEntered,
                   exitStatus, signalsSent, otherEvents>>

\* spawn_primary_client(): the outcomes by the first call that fails.
SpawnFailures == {"none", "pipe", "fork", "cloexec_read", "cloexec_write"}

MainSpawn ==
    /\ ~crashed /\ pc = "spawn"
    /\ UNCHANGED deskVars
    /\ \E f \in SpawnFailures :
        \/ /\ f = "pipe"
           /\ GotoEnd("spawn_pipe")
           /\ UNCHANGED <<pid, childState, fdRead, fdWrite, sources>>
        \/ /\ f = "fork"
           /\ GotoEnd("spawn_fork")
           /\ fdRead' = "open" /\ fdWrite' = "open"
           /\ UNCHANGED <<pid, childState, sources>>
        \/ /\ f \in {"cloexec_read", "cloexec_write"}
           /\ GotoEnd("spawn_cloexec")
           /\ pid' = 1 /\ childState' = "running"
           /\ fdRead' = "open" /\ fdWrite' = "open"
           /\ UNCHANGED sources
        \/ /\ f = "none"
           /\ pid' = 1 /\ childState' = "running"
           /\ fdRead' = "open" /\ fdWrite' = "closed"
           /\ sources' = sources \cup {"sigchld"}
           /\ pc' = "run"
           /\ handled' = "spawn"
           /\ UNCHANGED <<ret, failed, termRequested>>
    /\ UNCHANGED <<childStatus, display, displayRun, seat, outputLayout, teardown,
                   waitCalls, loopEntered, exitStatus, signalsSent, otherEvents, failActs,
                   crashed>>

\* wl_display_run(): display->run = 1; while (display->run) dispatch.
MainRun ==
    /\ ~crashed /\ pc = "run"
    /\ UNCHANGED deskVars
    /\ pc' = "loop"
    /\ displayRun' = TRUE
    /\ loopEntered' = TRUE
    /\ handled' = "wl_display_run"
    /\ UNCHANGED <<ret, pid, childState, childStatus, display, sources, fdRead,
                   fdWrite, seat, outputLayout, teardown, waitCalls, failed,
                   termRequested, exitStatus, signalsSent, otherEvents, failActs, crashed>>

\* The child terminates (on its own, or killed by someone else): the write end
\* of the pipe closes with it.
ChildTerminates ==
    /\ ~crashed /\ childState = "running" /\ pc # "done"
    /\ UNCHANGED deskVars
    /\ \E s \in ChildStatuses : childStatus' = s
    /\ childState' = "zombie"
    /\ handled' = "child_terminates"
    /\ UNCHANGED <<pc, ret, pid, display, displayRun, sources, fdRead, fdWrite, seat,
                   outputLayout, teardown, waitCalls, loopEntered, failed,
                   termRequested, exitStatus, signalsSent, otherEvents, failActs, crashed>>

\* wl_display_terminate(target): clears the run flag of the display it is given.
\* Given anything else it writes through a pointer that is no wl_display: the
\* dispatching display keeps running, and the stray write either goes unnoticed
\* or faults.
TerminateOutcomes(target) ==
    IF target = "server.wl_display"
    THEN {[run |-> FALSE, crash |-> FALSE]}
    ELSE {[run |-> displayRun, crash |-> FALSE], [run |-> displayRun, crash |-> TRUE]}

\* sigchld_handler(fd, mask, display): close(fd); wl_display_terminate(display).
SigchldHandler ==
    /\ ~crashed /\ pc = "loop"
    /\ UNCHANGED deskVars
    /\ "sigchld" \in sources /\ fdRead = "open"
    /\ childState \in {"zombie", "reaped"}
    /\ \E mask \in FdMasks : handled' = "sigchld_handler"
    /\ fdRead' = "closed"
    /\ \E o \in TerminateOutcomes(SigchldUserData) :
        /\ displayRun' = o.run
        /\ crashed' = o.crash
    /\ termRequested' = TRUE
    /\ UNCHANGED <<pc, ret, pid, childState, childStatus, display, sources, fdWrite,
                   seat, outputLayout, teardown, waitCalls, loopEntered, failed,
                   exitStatus, signalsSent, otherEvents, failActs>>

\* handle_signal(signal, user_data): SIGINT and SIGTERM call
\* wl_display_terminate(user_data).
HandleSignal ==
    /\ ~crashed /\ pc = "loop"
    /\ UNCHANGED deskVars
    /\ signalsSent < MaxSignals
    /\ \E sig \in Signals :
        /\ (IF sig = "SIGINT" THEN "sigint" ELSE "sigterm") \in sources
        /\ handled' = "handle_signal"
    /\ \E o \in TerminateOutcomes(SignalUserData) :
        /\ displayRun' = o.run
        /\ crashed' = o.crash
    /\ termRequested' = TRUE
    /\ signalsSent' = signalsSent + 1
    /\ UNCHANGED <<pc, ret, pid, childState, childStatus, display, sources, fdRead,
                   fdWrite, seat, outputLayout, teardown, waitCalls, loopEntered,
                   failed, exitStatus, otherEvents, failActs>>

\* Any other handler main() registered: none of them touches the display's run flag.
DispatchOther ==
    /\ ~crashed /\ pc = "loop"
    /\ UNCHANGED deskVars
    /\ otherEvents < MaxOtherEvents
    /\ \E h \in OtherHandlers : handled' = h
    /\ otherEvents' = otherEvents + 1
    /\ UNCHANGED <<pc, ret, pid, childState, childStatus, display, displayRun, sources,
                   fdRead, fdWrite, seat, outputLayout, teardown, waitCalls,
                   loopEntered, failed, termRequested, exitStatus, signalsSent,
                   failActs, crashed>>

\* wl_display_run() returns once the run flag is clear; then
\* wl_display_destroy_clients() and control falls into `end:`.
LoopExit ==
    /\ ~crashed /\ pc = "loop" /\ ~displayRun
    /\ UNCHANGED deskVars
    /\ pc' = "end_reap"
    /\ handled' = "wl_display_destroy_clients"
    /\ UNCHANGED <<ret, pid, childState, childStatus, display, displayRun, sources,
                   fdRead, fdWrite, seat, outputLayout, teardown, waitCalls,
                   loopEntered, failed, termRequested, exitStatus, signalsSent,
                   otherEvents, failActs, crashed>>

\* The statements of `end:` in program order: each position with the one after it.
EndNext_SeatBeforeSources ==
    [end_reap |-> "end_seat", end_seat |-> "end_sources", end_sources |-> "end_display",
     end_display |-> "end_layout", end_layout |-> "done"]

EndNext ==
    [end_reap |-> "end_sources", end_sources |-> "end_seat", end_seat |-> "end_display",
     end_display |-> "end_layout", end_layout |-> "done"]

\* waitpid(pid, &status, 0) can return: the child `pid` has terminated, or
\* pid = 0 (any child of the process group) and the process has no child at all,
\* where it fails at once with ECHILD.
WaitpidReturns == IF pid = 0 THEN childState = "none" ELSE childState = "zombie"

\* cleanup_primary_client(pid): one blocking waitpid(); the status is only logged.
cleanup_primary_client_SetsRet ==
    /\ WaitpidReturns
    /\ waitCalls' = waitCalls + 1
    /\ childState' = (IF childState = "zombie" THEN "reaped" ELSE childState)
    /\ ret' = (IF childStatus = [kind |-> "exited", code |-> 0] \/ childStatus = NoStatus
               THEN ret ELSE 1)

cleanup_primary_client ==
    /\ WaitpidReturns
    /\ waitCalls' = waitCalls + 1
    /\ childState' = (IF childState = "zombie" THEN "reaped" ELSE childState)
    /\ ret' = ret

EndReap ==
    /\ ~crashed /\ pc = "end_reap"
    /\ UNCHANGED deskVars
    /\ cleanup_primary_client
    /\ teardown' = Append(teardown, "reap")
    /\ pc' = EndNext[pc]
    /\ handled' = "cleanup_primary_client"
    /\ UNCHANGED <<pid, childStatus, display, displayRun, sources, fdRead, fdWrite,
                   seat, outputLayout, loopEntered, failed, termRequested, exitStatus,
                   signalsSent, otherEvents, failActs, crashed>>

\* wl_event_source_remove(sigint_source); (sigterm_source);
\* if (sigchld_source) wl_event_source_remove(sigchld_source);
EndSources ==
    /\ ~crashed /\ pc = "end_sources"
    /\ UNCHANGED deskVars
    /\ sources' = {}
    /\ teardown' = Append(teardown, "remove_sources")
    /\ pc' = EndNext[pc]
    /\ handled' = "wl_event_source_remove"
    /\ UNCHANGED <<ret, pid, childState, childStatus, display, displayRun, fdRead,
                   fdWrite, seat, outputLayout, waitCalls, loopEntered, failed,
                   termRequested, exitStatus, signalsSent, otherEvents, failActs, crashed>>

\* cage_seat_fini(server.seat)
EndSeat ==
    /\ ~crashed /\ pc = "end_seat"
    /\ UNCHANGED deskVars
    /\ seat' = (IF seat = "created" THEN "finished" ELSE seat)
    /\ teardown' = Append(teardown, "seat_fini")
    /\ pc' = EndNext[pc]
    /\ handled' = "cage_seat_fini"
    /\ UNCHANGED <<ret, pid, childState, childStatus, display, displayRun, sources,
                   fdRead, fdWrite, outputLayout, waitCalls, loopEntered, failed,
                   termRequested, exitStatus, signalsSent, otherEvents, failActs, crashed>>

\* wl_display_destroy(server.wl_display)
EndDisplay ==
    /\ ~crashed /\ pc = "end_display"
    /\ UNCHANGED deskVars
    /\ display' = "destroyed"
    /\ teardown' = Append(teardown, "display_destroy")
    /\ pc' = EndNext[pc]
    /\ handled' = "wl_display_destroy"
    /\ UNCHANGED <<ret, pid, childState, childStatus, displayRun, sources, fdRead,
                   fdWrite, seat, outputLayout, waitCalls, loopEntered, failed,
                   termRequested, exitStatus, signalsSent, otherEvents, failActs, crashed>>

\* wlr_output_layout_destroy(server.output_layout); return ret;
EndLayout ==
    /\ ~crashed /\ pc = "end_layout"
    /\ UNCHANGED deskVars
    /\ outputLayout' = (IF outputLayout = "created" THEN "destroyed" ELSE outputLayout)
    /\ teardown' = Append(teardown, "layout_destroy")
    /\ pc' = EndNext[pc]
    /\ exitStatus' = <<ret>>
    /\ handled' = "wlr_output_layout_destroy"
    /\ UNCHANGED <<ret, pid, childState, childStatus, display, displayRun, sources,
                   fdRead, fdWrite, seat, waitCalls, loopEntered, failed,
                   termRequested, signalsSent, otherEvents, failActs, crashed>>

\* The steps main() takes by itself, and the dispatch of a ready descriptor.
MainStep ==
    \/ MainParseArgs
    \/ MainGetenv
    \/ MainDisplayCreate
    \/ MainCheckedStep
    \/ MainRenderer
    \/ MainOutputLayout
    \/ MainSetupSeat
    \/ MainSpawn
    \/ MainRun
    \/ SigchldHandler
    \/ LoopExit
    \/ EndReap
    \/ EndSources
    \/ EndSeat
    \/ EndDisplay
    \/ EndLayout

NextMain ==
    \/ MainParseArgs
    \/ MainGetenv
    \/ MainDisplayCreate
    \/ MainCheckedStep
    \/ MainRenderer
    \/ MainOutputLayout
    \/ MainSetupSeat
    \/ MainSpawn
    \/ MainRun
    \/ ChildTerminates
    \/ SigchldHandler
    \/ HandleSignal
    \/ DispatchOther
    \/ LoopExit
    \/ EndReap
    \/ EndSources
    \/ EndSeat
    \/ EndDisplay
    \/ EndLayout

SpecMain == InitMain /\ [][NextMain]_vars

\* main() keeps executing and the loop dispatches a descriptor that is ready;
\* nothing obliges the child to terminate or a signal to arrive.
FairSpecMain == InitMain /\ [][NextMain]_vars /\ WF_vars(MainStep)

\* ------------------------------------------------------- claims on main()

\* The order section 5 of the specification fixes for shutdown.
TeardownOrder ==
    <<"reap", "remove_sources", "seat_fini", "display_destroy", "layout_destroy">>

\* The process is over: main() returned or the process died.
ProcessEnded == pc = "done" \/ crashed

\* C4: whichever trigger led to `end:`, the teardown steps executed so far are
\* an initial part of reap, remove sources, seat, display, output layout: no
\* later step runs before an earlier one.
C4_TeardownInFixedOrder ==
    /\ Len(teardown) <= Len(TeardownOrder)
    /\ \A i \in 1..Len(teardown) : teardown[i] = TeardownOrder[i]

\* C4 witness: a run that entered the loop, was stopped, and tore everything down.
C4_Witness == pc = "done" /\ loopEntered /\ teardown = TeardownOrder

\* C5 (as claimed): while the loop runs, a step clears the dispatching display's
\* run flag exactly when it is sigchld_handler or handle_signal handling
\* SIGINT/SIGTERM.
C5_TerminationExactlyOnChildExitOrSignal ==
    [][(pc = "loop" /\ displayRun /\ ~crashed)
        => ((displayRun' = FALSE) <=> (handled' \in {"sigchld_handler", "handle_signal"}))]_vars

\* C6 (as claimed): once a terminal trigger has fired, main() eventually returns.
C6_TerminationLeadsToReturn == termRequested ~> (pc = "done")

\* C7 (as claimed): when main() has returned, waitpid() was called once if a
\* child was forked and not at all if none was.
C7_ReapOnceIffSpawned ==
    pc = "done" => waitCalls = (IF pid # 0 THEN 1 ELSE 0)

\* The startup failures C8 lists.
C8Steps == {"display", "backend", "renderer", "compositor", "output_layout",
            "data_device_manager", "xdg_shell", "seat", "spawn_pipe", "spawn_fork"}

\* C8 (as claimed): a run in which one of the listed startup steps failed ends
\* with exit status 1 and never entered the event loop.
C8_StartupFailureExitsOne ==
    (failed \in C8Steps /\ ProcessEnded) => (exitStatus = <<1>> /\ ~loopEntered)

\* C9: when the loop was entered and main() has returned, the exit status is 0,
\* whatever the child's wait status.
C9_ExitZeroAfterLoop ==
    (pc = "done" /\ loopEntered) => exitStatus = <<0>>

\* C9 witness: main() returned after the loop, the child having died on a signal.
C9_Witness ==
    /\ pc = "done" /\ loopEntered
    /\ childState = "reaped" /\ childStatus.kind = "signaled"

\* The startup steps that come before server.seat is assigned, and those that
\* come before server.output_layout is.
BeforeSeat == {"backend", "drop_permissions", "compositor", "output_layout",
               "data_device_manager", "xdg_shell", "seat"}

BeforeLayout == {"backend", "drop_permissions", "compositor", "output_layout"}

\* C17 (as claimed): setup_seat's failure path frees or destroys no object that
\* was not created, whichever step failed, and after a startup failure main's
\* end path has torn down no seat and no output layout that was never created.
C17_TeardownOnlyOfCreatedObjects ==
    /\ failActs = {}
    /\ failed \in BeforeSeat => seat = "null"
    /\ failed \in BeforeLayout => outputLayout = "null"

\* C21 (as claimed): when spawn_primary_client returns, a failed spawn (pipe,
\* fork or set_cloexec) leaves the parent with neither end of the pipe open
\* and no event source registered for it, and a successful spawn leaves it
\* with the read end alone, registered with the event loop.
C21_SpawnLeavesOnlyRegisteredReadEnd ==
    [][(pc = "spawn" /\ pc' # "spawn")
        => IF pc' = "run"
           THEN /\ fdRead' = "open" /\ fdWrite' # "open"
                /\ "sigchld" \in sources'
           ELSE /\ fdRead' # "open" /\ fdWrite' # "open"
                /\ "sigchld" \notin sources']_vars

\* ------------------------------------------------------- the running loop

\* main() sits in wl_display_run() after a startup in which nothing failed.
MainRunning ==
    /\ pc = "loop"
    /\ ret = 0
    /\ pid = 1
    /\ childState = "running"
    /\ childStatus = NoStatus
    /\ display = "alive"
    /\ displayRun = TRUE
    /\ sources = {"sigint", "sigterm", "sigchld"}
    /\ fdRead = "open"
    /\ fdWrite = "closed"
    /\ seat = "created"
    /\ outputLayout = "created"
    /\ teardown = <<>>
    /\ waitCalls = 0
    /\ loopEntered = TRUE
    /\ failed = "none"
    /\ termRequested = FALSE
    /\ exitStatus = NoExit
    /\ signalsSent = 0
    /\ otherEvents = 0
    /\ failActs = {}
    /\ handled = "wl_display_run"
    /\ crashed = FALSE

InitDesktop == MainRunning /\ DeskEmpty

\* The loop dispatches one event at a time; while wlr_output->events.destroy is
\* being emitted, its listeners run before anything else.
Dispatching == ~crashed /\ pc = "loop" /\ emitting = NULL

Range(s) == {s[i] : i \in 1..Len(s)}

Remove(s, x) == SelectSeq(s, LAMBDA y : y # x)

Min(S) == CHOOSE x \in S : \A y \in S : x <= y

\* ------------------------------------------------------------- outputs

\* handle_new_output() with wlr_output_layout_add_auto() moved above the calloc
\* and its check.
handle_new_output_LayoutFirst(o, allocOk) ==
    /\ layout' = Append(layout, o)
    /\ outputs' = (IF allocOk THEN <<o>> \o outputs ELSE outputs)

\* handle_new_output(): calloc a cg_output; wlr_output_layout_add_auto();
\* wl_list_insert(&server->outputs, &output->link) puts it at the head;
\* cage_output_init().  A failed calloc returns before any of it.
handle_new_output(o, allocOk) ==
    IF allocOk
    THEN /\ layout' = Append(layout, o)
         /\ outputs' = <<o>> \o outputs
    ELSE UNCHANGED <<layout, outputs>>

\* The backend announces a new wlr_output.
NewOutput ==
    /\ Dispatching
    /\ \E o \in OutputIds :
        /\ wlrOutputs[o] = "absent"
        /\ \A p \in OutputIds : p < o => wlrOutputs[p] # "absent"
        /\ wlrOutputs' = [wlrOutputs EXCEPT ![o] = "alive"]
        /\ \E allocOk \in BOOLEAN :
            /\ handle_new_output(o, allocOk)
            /\ allocFailed' = ~allocOk
    /\ handled' = "handle_new_output"
    /\ UNCHANGED <<emitting, emitQueue, pointerVars, layerVars, mainVars, inputVars, crashed>>

\* The backend destroys a wlr_output: wlr_output->events.destroy is emitted to
\* the listeners registered on it.
OutputDestroyBegin ==
    /\ Dispatching
    /\ \E o \in OutputIds :
        /\ wlrOutputs[o] = "alive"
        /\ emitting' = o
        /\ emitQueue' = outDestroy[o]
    /\ handled' = "wlr_output_destroy"
    /\ allocFailed' = FALSE
    /\ UNCHANGED <<wlrOutputs, outputs, layout, pointerVars, layerVars, mainVars, inputVars,
                   crashed>>

\* Output detach(): once the layer surfaces bound to the output are closed, it
\* leaves the server's output list and the layout.
OutputDetach ==
    /\ ~crashed /\ pc = "loop"
    /\ emitting # NULL /\ emitQueue = <<>>
    /\ outputs' = Remove(outputs, emitting)
    /\ layout' = Remove(layout, emitting)
    /\ wlrOutputs' = [wlrOutputs EXCEPT ![emitting] = "destroyed"]
    /\ emitting' = NULL
    /\ handled' = "output_detach"
    /\ allocFailed' = FALSE
    /\ UNCHANGED <<emitQueue, pointerVars, layerVars, mainVars, inputVars, crashed>>

\* --------------------------------------------------------------- views

\* xdg_surface->role
XdgRoles == {"toplevel", "popup", "none"}

\* handle_xdg_shell_surface_new(): other roles and a failed calloc return; the
\* view is initialised on wl_container_of(server->outputs.next, output, link),
\* the head of the list; server->view_mapped and server->view_unmapped, one
\* listener each in the server, are added to the new view's map and unmap
\* signals.
handle_xdg_shell_surface_new(v, role, allocOk) ==
    IF role = "toplevel" /\ allocOk
    THEN views' = [views EXCEPT ![v] =
                    [state |-> "created",
                     output |-> IF outputs = <<>> THEN BogusOutput ELSE Head(outputs),
                     width |-> 0,
                     listeners |-> {"view_mapped", "view_unmapped"}]]
    ELSE UNCHANGED views

NewXdgSurface ==
    /\ Dispatching
    /\ \E v \in ViewIds :
        /\ views[v].state = "absent"
        /\ \A u \in ViewIds : u < v => views[u].state # "absent"
        /\ \E role \in XdgRoles, allocOk \in BOOLEAN :
            /\ handle_xdg_shell_surface_new(v, role, allocOk)
            /\ evRole' = role
            /\ allocFailed' = (role = "toplevel" /\ ~allocOk)
    /\ handled' = "handle_xdg_shell_surface_new"
    /\ UNCHANGED <<cursorX, focused, sent, prevFocus, hit, lastTime, outputVars,
                   layerVars, mainVars, inputVars, crashed>>

\* View map: created/unmapped -> mapped, with the geometry it maps at.
ViewMap ==
    /\ Dispatching
    /\ \E v \in ViewIds, w \in 1..OutputWidth :
        /\ views[v].state \in {"created", "unmapped"}
        /\ views' = [views EXCEPT ![v].state = "mapped", ![v].width = w]
    /\ handled' = "view_map"
    /\ allocFailed' = FALSE
    /\ evRole' = "none"
    /\ UNCHANGED <<cursorX, focused, sent, prevFocus, hit, lastTime, outputVars,
                   layerVars, mainVars, inputVars, crashed>>

\* View unmap: mapped -> unmapped.
ViewUnmap ==
    /\ Dispatching
    /\ \E v \in ViewIds :
        /\ views[v].state = "mapped"
        /\ views' = [views EXCEPT ![v].state = "unmapped"]
    /\ handled' = "view_unmap"
    /\ allocFailed' = FALSE
    /\ evRole' = "none"
    /\ UNCHANGED <<cursorX, focused, sent, prevFocus, hit, lastTime, outputVars,
                   layerVars, mainVars, inputVars, crashed>>

\* View destroy: from created, mapped or unmapped; the seat drops a focus on
\* the surface that goes away.  The server has no listener on the destruction
\* of a view and no statement that unlinks view_mapped or view_unmapped.
ViewDestroy ==
    /\ Dispatching
    /\ \E v \in ViewIds :
        /\ views[v].state \in {"created", "mapped", "unmapped"}
        /\ views' = [views EXCEPT ![v].state = "destroyed"]
        /\ focused' = (IF focused = v THEN NULL ELSE focused)
    /\ handled' = "view_destroy"
    /\ allocFailed' = FALSE
    /\ evRole' = "none"
    /\ UNCHANGED <<cursorX, sent, prevFocus, hit, lastTime, outputVars, layerVars,
                   mainVars, inputVars, crashed>>

\* ------------------------------------------------------------- pointer

\* wlr_output_layout_output_at(): outputs added with add_auto sit side by side
\* in the order of the layout; NULL where no output is.
wlr_output_layout_output_at(lx) ==
    IF lx >= 0 /\ lx < Len(layout) * OutputWidth
    THEN layout[(lx \div OutputWidth) + 1]
    ELSE NULL

\* Output surface_at(): the mapped view of this output whose box holds the point.
cage_output_surface_at(o, lx) ==
    LET local == lx % OutputWidth
        cands == {v \in ViewIds : /\ views[v].state = "mapped"
                                  /\ views[v].output = o
                                  /\ local < views[v].width}
    IN  IF cands = {} THEN NULL ELSE Min(cands)

\* desktop_surface_at(): wlr_output->data is read without a check, so a point
\* outside every output dereferences NULL.
desktop_surface_at(lx) ==
    LET wlr_output == wlr_output_layout_output_at(lx)
    IN  IF wlr_output = NULL
        THEN [fault |-> TRUE, surface |-> NULL]
        ELSE [fault |-> FALSE, surface |-> cage_output_surface_at(wlr_output, lx)]

\* wlr_seat_pointer_notify_enter(): a no-op on the surface that has the focus,
\* otherwise leave the old surface, enter the new one and make it the focus.
wlr_seat_pointer_notify_enter(f, surface) ==
    [focus |-> surface,
     msgs |-> IF f = surface THEN <<>>
              ELSE (IF f = NULL THEN <<>> ELSE <<"leave">>) \o <<"enter">>]

\* wlr_seat_pointer_clear_focus()
wlr_seat_pointer_clear_focus(f) ==
    [focus |-> NULL, msgs |-> IF f = NULL THEN <<>> ELSE <<"leave">>]

\* handle_cursor_motion() past the hit test: f is the focus on entry.
\* focus_changed is read from the seat AFTER notify_enter has updated it.
handle_cursor_motion(f, surface, time) ==
    IF surface = NULL
    THEN wlr_seat_pointer_clear_focus(f)
    ELSE LET entered == wlr_seat_pointer_notify_enter(f, surface)
             focus_changed == entered.focus # surface
         IN  [focus |-> entered.focus,
              msgs |-> entered.msgs \o
                       (IF ~focus_changed /\ time > 0 THEN <<"motion">> ELSE <<>>)]

\* Where the cursor can be when a motion event arrives: wlr_cursor keeps it
\* inside the layout as long as the layout has an output.
CursorPositions ==
    IF layout = <<>>
    THEN 0..(MaxOutputs * OutputWidth - 1)
    ELSE 0..(Len(layout) * OutputWidth - 1)

\* The `time` of a motion event: 0 for a synthetic one.
Times == 0..1

\* The cursor moved: handle_cursor_motion().
CursorMotion ==
    /\ Dispatching
    /\ \E x \in CursorPositions, time \in Times :
        LET at == desktop_surface_at(x)
            r == handle_cursor_motion(focused, at.surface, time)
        IN  /\ cursorX' = x
            /\ lastTime' = time
            /\ prevFocus' = focused
            /\ hit' = at.surface
            /\ IF at.fault
               THEN /\ crashed' = TRUE
                    /\ sent' = <<>>
                    /\ UNCHANGED focused
               ELSE /\ crashed' = FALSE
                    /\ sent' = r.msgs
                    /\ focused' = r.focus
    /\ handled' = "handle_cursor_motion"
    /\ allocFailed' = FALSE
    /\ evRole' = "none"
    /\ UNCHANGED <<views, outputVars, layerVars, mainVars, inputVars>>

NextPointer ==
    \/ NewOutput
    \/ OutputDestroyBegin
    \/ OutputDetach
    \/ NewXdgSurface
    \/ ViewMap
    \/ ViewUnmap
    \/ ViewDestroy
    \/ CursorMotion

SpecPointer == InitDesktop /\ [][NextPointer]_vars

\* ------------------------------------------------- claims on the pointer

\* C1 (as claimed): after a pointer event whose hit test found a surface S, if S
\* was not the focus before the event then an enter was sent and no motion; a
\* motion was sent only if S already had the focus and time > 0.
C1_NoMotionOnFocusChange ==
    (handled = "handle_cursor_motion" /\ ~crashed /\ hit # NULL) =>
        /\ hit # prevFocus => ("enter" \in Range(sent) /\ "motion" \notin Range(sent))
        /\ "motion" \in Range(sent) => (hit = prevFocus /\ lastTime > 0)

\* The hit test of section 4.5 at the cursor: the surface_at of the output under
\* the cursor, NULL when it finds nothing or no output is there.
HitTestAtCursor ==
    LET o == wlr_output_layout_output_at(cursorX)
    IN  IF o = NULL THEN NULL ELSE cage_output_surface_at(o, cursorX)

\* C2 (as claimed): after every pointer-motion event the handler has completed
\* and the focus is the hit-test result at the cursor, NULL when nothing is hit.
C2_FocusEqualsHitTest ==
    handled = "handle_cursor_motion" => (~crashed /\ focused = HitTestAtCursor)

\* ---------------------------------------------------------- layer shell

\* server->output, which handle_layer_shell_v1_surface_new falls back to:
\* main() zero-initialises the server and no handler ever assigns the field.
ServerOutput == NULL

\* wlr_output->data: the cg_output of a registered output, NULL otherwise.
OutputData(o) == IF o \in Range(outputs) THEN o ELSE NULL

\* wl_list_insert(&output->layers[k], &link): at the head of that list.
ListInsert(ls, o, k, l) == [ls EXCEPT ![o][k] = <<l>> \o @]

\* wl_list_remove(&link): out of whichever list holds the link.
ListRemove(ls, l) == [o \in OutputIds |-> [k \in Layers |-> Remove(ls[o][k], l)]]

\* One output_damage_surface(output, surface, x, y, whole) call.
Damage(o, l, box, whole) ==
    [output |-> o, surface |-> l, x |-> box.x, y |-> box.y, whole |-> whole]

\* unmap() without the two early returns: the damage goes to whatever
\* wlr_output->data yields.
unmap_NoOutputTest(l, wlr_output) ==
    <<Damage(OutputData(wlr_output), l, lsurf[l].geometry, TRUE)>>

\* unmap(), wlr_output being cg_layer->layer_surface->output as line 34 reads
\* it: nothing without an output or without its cg_output, otherwise the
\* geometry is damaged as a whole.
unmap(l, wlr_output) ==
    IF wlr_output = NULL THEN <<>>
    ELSE IF OutputData(wlr_output) = NULL THEN <<>>
    ELSE <<Damage(OutputData(wlr_output), l, lsurf[l].geometry, TRUE)>>

\* handle_layer_shell_v1_surface_new() with an output to bind to: the output
\* is stored before the calloc; the cg_layer (layer = 0 from calloc) subscribes
\* to map, unmap, commit, destroy and the output's destroy, and is inserted in
\* output->layers[client_pending.layer].
handle_layer_shell_v1_surface_new(l, o, pending, allocOk) ==
    IF ~allocOk
    THEN /\ lsurf' = [lsurf EXCEPT ![l].wlr = "alive", ![l].output = o]
         /\ UNCHANGED <<layers, outDestroy>>
    ELSE /\ lsurf' = [lsurf EXCEPT ![l] =
                        [wlr |-> "alive", cg |-> "alive", output |-> o, bound0 |-> o,
                         mapped |-> FALSE, closed |-> FALSE, layer |-> 0,
                         link |-> "list",
                         listeners |-> {"map", "unmap", "surface_commit", "destroy",
                                        "output_destroy"},
                         geometry |-> ZeroBox, misuse |-> FALSE]]
         /\ outDestroy' = [outDestroy EXCEPT ![OutputData(o)] = Append(@, l)]
         /\ layers' = ListInsert(layers, OutputData(o), pending, l)

\* A client creates a layer surface, on an output it names (one that has a
\* wl_output global: one in the layout) or on none.
NewLayerSurface ==
    /\ Dispatching
    /\ \E l \in LayerIds :
        /\ lsurf[l].wlr = "absent"
        /\ \A m \in LayerIds : m < l => lsurf[m].wlr # "absent"
        /\ evSurface' = l
        /\ \E explicit \in Range(layout) \cup {NULL}, pending \in Layers,
              allocOk \in BOOLEAN :
            /\ evNamed' = explicit
            /\ IF explicit = NULL /\ ServerOutput = NULL
               THEN \* server->output->wlr_output reads through NULL
                    /\ crashed' = TRUE
                    /\ allocFailed' = FALSE
                    /\ lsurf' = [lsurf EXCEPT ![l].wlr = "alive"]
                    /\ UNCHANGED <<layers, outDestroy>>
               ELSE /\ crashed' = FALSE
                    /\ allocFailed' = ~allocOk
                    /\ handle_layer_shell_v1_surface_new(
                           l, IF explicit = NULL THEN ServerOutput ELSE explicit,
                           pending, allocOk)
    /\ damage' = <<>>
    /\ handled' = "handle_layer_shell_v1_surface_new"
    /\ evLayer' = 0 /\ evPrev' = 0 /\ evResized' = FALSE
    /\ UNCHANGED <<outputVars, pointerVars, mainVars, inputVars>>

\* wl_list_remove() is applied to the layer link of s and to its listeners ls:
\* all of them are in a list (a link re-initialised by wl_list_init is in its
\* own).
Linked(s, ls) == s.link \in {"list", "self"} /\ ls \subseteq s.listeners

\* handle_output_destroy() without line 27: the output reference is kept.
handle_output_destroy_KeepsOutput(l) ==
    /\ outDestroy' = [o \in OutputIds |-> Remove(outDestroy[o], l)]
    /\ layers' = ListRemove(layers, l)
    /\ lsurf' = [lsurf EXCEPT ![l].link = "self",
                              ![l].closed = TRUE,
                              ![l].mapped = FALSE,
                              ![l].listeners = @ \ {"output_destroy"},
                              ![l].misuse = @ \/ ~Linked(lsurf[l], {"output_destroy"})]
    /\ damage' = (IF lsurf[l].mapped THEN unmap(l, lsurf[l].output) ELSE <<>>)

\* handle_output_destroy(): unsubscribe from the output's destroy, unlink from
\* the layer list (the link is re-initialised), null the output, then
\* wlr_layer_surface_v1_close(), which unmaps a mapped surface: handle_unmap
\* runs with the output already NULL.
handle_output_destroy(l) ==
    /\ outDestroy' = [o \in OutputIds |-> Remove(outDestroy[o], l)]
    /\ layers' = ListRemove(layers, l)
    /\ lsurf' = [lsurf EXCEPT ![l].link = "self",
                              ![l].output = NULL,
                              ![l].closed = TRUE,
                              ![l].mapped = FALSE,
                              ![l].listeners = @ \ {"output_destroy"},
                              ![l].misuse = @ \/ ~Linked(lsurf[l], {"output_destroy"})]
    /\ damage' = (IF lsurf[l].mapped THEN unmap(l, NULL) ELSE <<>>)

\* The destroy signal of the output reaches the next layer surface listening.
HandleOutputDestroy ==
    /\ ~crashed /\ pc = "loop"
    /\ emitting # NULL /\ emitQueue # <<>>
    /\ handle_output_destroy(Head(emitQueue))
    /\ evSurface' = Head(emitQueue)
    /\ emitQueue' = Tail(emitQueue)
    /\ handled' = "handle_output_destroy"
    /\ allocFailed' = FALSE
    /\ evLayer' = 0 /\ evPrev' = 0 /\ evResized' = FALSE /\ evNamed' = NULL
    /\ UNCHANGED <<wlrOutputs, outputs, layout, emitting, pointerVars,
                   mainVars, inputVars, crashed>>

\* handle_surface_commit() that inserts into the new list without the
\* wl_list_remove() from the old one.
handle_surface_commit_NoRemove(l, cur) ==
    LET s == lsurf[l]
        layer_changed == s.layer # cur
    IN  IF s.output = NULL
        THEN /\ UNCHANGED <<lsurf, layers>>
             /\ damage' = <<>>
        ELSE /\ layers' = (IF layer_changed
                           THEN ListInsert(layers, OutputData(s.output), cur, l)
                           ELSE layers)
             /\ lsurf' = (IF layer_changed THEN [lsurf EXCEPT ![l].layer = cur]
                          ELSE lsurf)
             /\ damage' = (IF layer_changed
                           THEN <<Damage(OutputData(s.output), l, s.geometry, TRUE),
                                  Damage(OutputData(s.output), l, s.geometry, TRUE)>>
                           ELSE <<Damage(OutputData(s.output), l, s.geometry, FALSE)>>)

\* handle_surface_commit(): cur is layer_surface->current.layer.  Nothing
\* without an output.  old_geometry is a copy of layer->geometry compared with
\* layer->geometry itself; a changed layer moves the link to the head of
\* output->layers[cur] and records cur.
handle_surface_commit(l, cur) ==
    LET s == lsurf[l]
        wlr_output == s.output
        output == OutputData(wlr_output)
        old_geometry == s.geometry
        geometry_changed == old_geometry # s.geometry
        layer_changed == s.layer # cur
    IN  IF wlr_output = NULL
        THEN /\ UNCHANGED <<lsurf, layers>>
             /\ damage' = <<>>
        ELSE /\ layers' = (IF layer_changed
                           THEN ListInsert(ListRemove(layers, l), output, cur, l)
                           ELSE layers)
             /\ lsurf' = (IF layer_changed THEN [lsurf EXCEPT ![l].layer = cur]
                          ELSE lsurf)
             /\ damage' = (IF geometry_changed \/ layer_changed
                           THEN <<Damage(output, l, old_geometry, TRUE),
                                  Damage(output, l, s.geometry, TRUE)>>
                           ELSE <<Damage(output, l, s.geometry, FALSE)>>)

\* The surface of a layer surface is committed: the client's pending state
\* becomes layer_surface->current, with the layer `cur` and with or without a
\* change of the desired size, the only input of the surface's geometry here.
LayerCommit ==
    /\ Dispatching
    /\ \E l \in LayerIds, cur \in Layers, resized \in BOOLEAN :
        /\ lsurf[l].wlr = "alive"
        /\ "surface_commit" \in lsurf[l].listeners
        /\ handle_surface_commit(l, cur)
        /\ evSurface' = l
        /\ evLayer' = cur
        /\ evPrev' = lsurf[l].layer
        /\ evResized' = resized
        /\ evNamed' = NULL
    /\ handled' = "handle_surface_commit"
    /\ allocFailed' = FALSE
    /\ UNCHANGED <<outDestroy, outputVars, pointerVars, mainVars, inputVars, crashed>>

\* The layer surface is mapped (never once it is closed): handle_map() reads
\* layer_surface->output->data unchecked, damages the whole surface and sends
\* the surface the output it entered.
LayerMap ==
    /\ Dispatching
    /\ \E l \in LayerIds :
        /\ lsurf[l].wlr = "alive"
        /\ "map" \in lsurf[l].listeners
        /\ ~lsurf[l].mapped /\ ~lsurf[l].closed
        /\ evSurface' = l
        /\ IF lsurf[l].output = NULL
           THEN /\ crashed' = TRUE
                /\ damage' = <<>>
                /\ UNCHANGED lsurf
           ELSE /\ crashed' = FALSE
                /\ lsurf' = [lsurf EXCEPT ![l].mapped = TRUE]
                /\ damage' = <<Damage(OutputData(lsurf[l].output), l,
                                      lsurf[l].geometry, TRUE)>>
    /\ handled' = "handle_map"
    /\ allocFailed' = FALSE
    /\ evLayer' = 0 /\ evPrev' = 0 /\ evResized' = FALSE /\ evNamed' = NULL
    /\ UNCHANGED <<layers, outDestroy, outputVars, pointerVars, mainVars, inputVars>>

\* The layer surface is unmapped: handle_unmap() is unmap().
LayerUnmap ==
    /\ Dispatching
    /\ \E l \in LayerIds :
        /\ lsurf[l].wlr = "alive"
        /\ "unmap" \in lsurf[l].listeners
        /\ lsurf[l].mapped
        /\ evSurface' = l
        /\ damage' = unmap(l, lsurf[l].output)
        /\ lsurf' = [lsurf EXCEPT ![l].mapped = FALSE]
    /\ handled' = "handle_unmap"
    /\ allocFailed' = FALSE
    /\ evLayer' = 0 /\ evPrev' = 0 /\ evResized' = FALSE /\ evNamed' = NULL
    /\ UNCHANGED <<layers, outDestroy, outputVars, pointerVars, mainVars, inputVars,
                   crashed>>

\* What handle_destroy() leaves of the layer surface s after removing the
\* layer link and the listeners ls and freeing the cg_layer.
Destroyed(s, ls) ==
    [NoLayerSurface EXCEPT !.wlr = "destroyed",
                           !.cg = "freed",
                           !.link = "removed",
                           !.closed = s.closed,
                           !.listeners = s.listeners \ ls,
                           !.misuse = s.misuse \/ ~Linked(s, ls)]

\* handle_destroy() without the test of line 65: the output_destroy listener
\* is removed whether or not an output is left.
handle_destroy_NoOutputTest(l, mapped) ==
    /\ damage' = (IF mapped THEN unmap(l, lsurf[l].output) ELSE <<>>)
    /\ layers' = ListRemove(layers, l)
    /\ outDestroy' = [o \in OutputIds |-> Remove(outDestroy[o], l)]
    /\ lsurf' = [lsurf EXCEPT ![l] =
                    Destroyed(lsurf[l], {"map", "unmap", "surface_commit", "destroy",
                                         "output_destroy"})]

\* handle_destroy(): unmap() if still mapped; the layer link and the four
\* surface listeners are removed; with an output, the output_destroy listener
\* is removed and the output nulled; the cg_layer is freed.
handle_destroy(l, mapped) ==
    /\ damage' = (IF mapped THEN unmap(l, lsurf[l].output) ELSE <<>>)
    /\ layers' = ListRemove(layers, l)
    /\ outDestroy' = (IF lsurf[l].output # NULL
                      THEN [o \in OutputIds |-> Remove(outDestroy[o], l)]
                      ELSE outDestroy)
    /\ lsurf' = [lsurf EXCEPT ![l] =
                    Destroyed(lsurf[l],
                              {"map", "unmap", "surface_commit", "destroy"}
                                  \cup (IF lsurf[l].output # NULL
                                        THEN {"output_destroy"} ELSE {}))]

\* The layer surface is destroyed (by its client, or with it).  A surface
\* whose cg_layer was never allocated has no listener to call.
LayerDestroy ==
    /\ Dispatching
    /\ \E l \in LayerIds :
        /\ lsurf[l].wlr = "alive"
        /\ evSurface' = l
        /\ IF "destroy" \in lsurf[l].listeners
           THEN handle_destroy(l, lsurf[l].mapped)
           ELSE /\ lsurf' = [lsurf EXCEPT ![l] =
                                [NoLayerSurface EXCEPT !.wlr = "destroyed"]]
                /\ damage' = <<>>
                /\ UNCHANGED <<layers, outDestroy>>
    /\ handled' = "handle_destroy"
    /\ allocFailed' = FALSE
    /\ evLayer' = 0 /\ evPrev' = 0 /\ evResized' = FALSE /\ evNamed' = NULL
    /\ UNCHANGED <<outputVars, pointerVars, mainVars, inputVars, crashed>>

NextLayer ==
    \/ NewOutput
    \/ OutputDestroyBegin
    \/ HandleOutputDestroy
    \/ OutputDetach
    \/ NewLayerSurface
    \/ LayerCommit
    \/ LayerMap
    \/ LayerUnmap
    \/ LayerDestroy

SpecLayer == InitDesktop /\ [][NextLayer]_vars

\* --------------------------------------------- claims on the layer shell

\* The layer lists of every output that hold layer surface l.
ListsHolding(ls, l) ==
    {<<o, k>> \in OutputIds \X Layers : l \in Range(ls[o][k])}

\* C3: a layer surface (a live cg_layer) never refers to an output that is not
\* in the server's output list; and once the output it was bound to has left
\* the list, the surface is closed, has no output and is in no layer list.
C3_NoReferenceToUnregisteredOutput ==
    \A l \in LayerIds :
        lsurf[l].cg = "alive" =>
            /\ lsurf[l].output # NULL => lsurf[l].output \in Range(outputs)
            /\ lsurf[l].bound0 \notin Range(outputs) =>
                /\ lsurf[l].closed
                /\ lsurf[l].output = NULL
                /\ ListsHolding(layers, l) = {}

\* C3 witness: an output was destroyed under a layer surface bound to it; the
\* surface lives on, closed and unbound.
C3_Witness ==
    \E l \in LayerIds :
        /\ lsurf[l].cg = "alive"
        /\ wlrOutputs[lsurf[l].bound0] = "destroyed"
        /\ lsurf[l].closed /\ lsurf[l].output = NULL

\* C10: a commit of a bound layer surface whose current.layer differs from the
\* recorded layer leaves it in exactly one list, the requested one of the same
\* output, records the requested layer, and damages the old and the new
\* geometry, both as whole surface.
C10_LayerChangeMovesAndDamages ==
    [][(/\ handled' = "handle_surface_commit"
        /\ lsurf[evSurface'].output # NULL
        /\ lsurf[evSurface'].layer # evLayer')
        => LET l == evSurface'
               o == lsurf[l].output
           IN  /\ ListsHolding(layers', l) = {<<o, evLayer'>>}
               /\ Len(SelectSeq(layers'[o][evLayer'], LAMBDA m : m = l)) = 1
               /\ lsurf'[l].layer = evLayer'
               /\ lsurf'[l].output = o
               /\ damage' = <<Damage(o, l, lsurf[l].geometry, TRUE),
                              Damage(o, l, lsurf'[l].geometry, TRUE)>>]_vars

\* C10 witness: a commit has just moved a surface from bottom (1) to top (2),
\* with two whole-surface damages on unchanged geometry.
C10_Witness ==
    /\ handled = "handle_surface_commit"
    /\ evSurface # NULL
    /\ Len(damage) = 2
    /\ damage[1].whole /\ damage[2].whole
    /\ damage[1].x = damage[2].x
    /\ lsurf[evSurface].layer = evLayer
    /\ evPrev = 1 /\ evLayer = 2
    /\ ListsHolding(layers, evSurface) = {<<lsurf[evSurface].output, 2>>}

\* C11 (as claimed): a commit of a bound layer surface that keeps its layer
\* damages two whole surfaces (the old and the new geometry) when the commit
\* changed the geometry, and one incremental damage of the current geometry
\* only when it changed neither.
C11_GeometryChangeDamagesOldAndNew ==
    [][(/\ handled' = "handle_surface_commit"
        /\ lsurf[evSurface'].output # NULL
        /\ lsurf[evSurface'].layer = evLayer')
        => IF evResized'
           THEN /\ Len(damage') = 2
                /\ damage'[1].whole /\ damage'[2].whole
           ELSE /\ Len(damage') = 1
                /\ ~damage'[1].whole]_vars

\* C12 (as claimed): a layer surface that arrived with no output while exactly
\* one output was registered is bound to it: the handler completes, the
\* surface's output is that output, it is in one of that output's layer lists
\* and it listens to that output's destroy.
C12_NoOutputBindsToSoleOutput ==
    (/\ handled = "handle_layer_shell_v1_surface_new"
     /\ evNamed = NULL
     /\ Len(outputs) = 1)
        => LET l == evSurface
               o == Head(outputs)
           IN  /\ ~crashed
               /\ lsurf[l].output = o
               /\ \E k \in Layers : ListsHolding(layers, l) = {<<o, k>>}
               /\ l \in Range(outDestroy[o])

\* The output whose new-output event was handled earliest among those in
\* server->outputs: every insertion is at the head, so it is the last entry.
FirstOutputCreated == outputs[Len(outputs)]

\* C13 (as claimed): a new toplevel surface whose view is created binds the
\* view to the first output in creation order; a surface of another role
\* creates no view.
C13_ViewBoundToFirstOutput ==
    [][handled' = "handle_xdg_shell_surface_new"
        => \A v \in ViewIds :
              views[v].state = "absent" =>
                IF evRole' = "toplevel"
                THEN views'[v].state = "created" =>
                        /\ outputs # <<>>
                        /\ views'[v].output = FirstOutputCreated
                ELSE views'[v].state = "absent"]_vars

\* The views whose signal list links the server's listener n.
LinkedInto(n) == {v \in ViewIds : n \in views[v].listeners}

\* C19 (as claimed): server->view_mapped and server->view_unmapped are each
\* linked into the signal list of at most one view, and a destroyed view holds
\* no listener of the server.
C19_ListenerInAtMostOneList ==
    /\ \A n \in {"view_mapped", "view_unmapped"} : Cardinality(LinkedInto(n)) <= 1
    /\ \A v \in ViewIds : views[v].state = "destroyed" => views[v].listeners = {}

\* ------------------------------------------------------- input devices

\* enum wlr_input_device_type
DeviceTypes == {"keyboard", "pointer", "touch", "switch", "tablet_tool", "tablet_pad"}

\* cage_seat_update_capabilities(): the flags are the classes of the attached
\* devices.
cage_seat_update_capabilities(devices) ==
    {devices[i] : i \in 1..Len(devices)} \cap {"keyboard", "pointer"}

\* handle_new_input(): keyboard and pointer are added to the seat and break,
\* touch is logged and breaks; switch, tablet tool and tablet pad are logged
\* and RETURN.  cage_seat_update_capabilities() follows the switch statement.
handle_new_input(type) ==
    LET added == IF type \in {"keyboard", "pointer"}
                 THEN Append(seatDevices, type) ELSE seatDevices
        returned == type \in {"switch", "tablet_tool", "tablet_pad"}
    IN  /\ seatDevices' = added
        /\ capsUpdated' = ~returned
        /\ capabilities' = (IF returned THEN capabilities
                            ELSE cage_seat_update_capabilities(added))

\* The backend announces a new input device.
NewInput ==
    /\ Dispatching
    /\ Len(announced) < MaxInputDevices
    /\ \E type \in DeviceTypes :
        /\ announced' = Append(announced, type)
        /\ handle_new_input(type)
    /\ handled' = "handle_new_input"
    /\ UNCHANGED <<outputVars, pointerVars, layerVars, mainVars, allocFailed, crashed>>

NextInput == NewInput

SpecInput == InitDesktop /\ [][NextInput]_vars

\* C14 (as claimed): every new-input event, whatever the device type, ends
\* with the capability flags recomputed; a type other than keyboard and pointer
\* adds no device to the seat.
C14_CapabilitiesAlwaysRecomputed ==
    [][handled' = "handle_new_input"
        => /\ capsUpdated'
           /\ announced'[Len(announced')] \notin {"keyboard", "pointer"}
                => seatDevices' = seatDevices]_vars

\* ------------------------------------------------- allocation failures

\* The three handlers that allocate an object for an incoming event, and the
\* destruction of outputs.
NextAlloc ==
    \/ NewOutput
    \/ OutputDestroyBegin
    \/ HandleOutputDestroy
    \/ OutputDetach
    \/ NewXdgSurface
    \/ NewLayerSurface

SpecAlloc == InitDesktop /\ [][NextAlloc]_vars

C16_SubscriptionsRemovedExactlyOnce ==
    \A l \in LayerIds :
        /\ ~lsurf[l].misuse
        /\ ("output_destroy" \in lsurf[l].listeners)
              <=> (\E o \in OutputIds : l \in Range(outDestroy[o]))
        /\ lsurf[l].cg = "freed" =>
              /\ lsurf[l].listeners = {}
              /\ lsurf[l].link = "removed"
              /\ ListsHolding(layers, l) = {}

\* C16 witness: a layer surface was force-closed by the destruction of its
\* output and destroyed afterwards.
C16_Witness ==
    \E l \in LayerIds :
        /\ lsurf[l].cg = "freed"
        /\ lsurf[l].closed
        /\ \E o \in OutputIds : wlrOutputs[o] = "destroyed"

\* The handlers of the events of a layer surface itself.
SurfaceHandlers == {"handle_map", "handle_unmap", "handle_surface_commit",
                    "handle_destroy"}

C20_RecordedLayerIsListIndex ==
    \A l \in LayerIds :
        \A ok \in ListsHolding(layers, l) : lsurf[l].layer = ok[2]

====
